---- MODULE Spec2Model ----
(***************************************************************************)
(* Model of the CeilingFanRemote accessory (src/src/accessory.ts): the     *)
(* cached characteristic state, the characteristic GET/SET handlers, the   *)
(* raw RF command builder (sendCommand) and the single-flight command      *)
(* queue (addCommand / runNextCommand) with its outstanding got() calls.   *)
(*                                                                         *)
(* JavaScript runs every handler to completion, so each handler, with the  *)
(* calls it makes, is one action.  A got() call is outstanding from the    *)
(* step that starts it to the step in which its promise settles; the       *)
(* then/catch/finally callbacks run back to back as microtasks and form    *)
(* the single action Finally.                                              *)
(*                                                                         *)
(* Strings are sequences of one-character strings.  A JavaScript value     *)
(* that may be undefined is a record [type, val].  A number that need not  *)
(* be whole (a characteristic value divided by its step) is a mixed number *)
(* [int, frac]: int whole steps and frac left-over units of the dividend.  *)
(* The 100 ms setTimeout callbacks of the two "set to 0" branches only     *)
(* write framework-side characteristic values and are not part of the      *)
(* state modelled here.                                                    *)
(***************************************************************************)
EXTENDS Integers, Sequences, FiniteSets, TLC

\* Bound: the number of queue entries created in one run of Spec.
MaxEnq == 3

\* Bound: the number of queue entries created in one run of GetSpec.
MaxGetEnq == 2

\* Bound: the number of queue entries created in one run of LiveSpec.
MaxLiveEnq == 2

\* Bound: the number of queue entries created in one run of LevelSpec.
MaxLevelEnq == 2

(***************************************************************************)
(* JavaScript values                                                       *)
(***************************************************************************)
JsNum(n) == [type |-> "number", val |-> n]

JsBool(b) == [type |-> "boolean", val |-> b]

JsUndefined == [type |-> "undefined", val |-> 0]

\* a / b for non-negative a and positive b, as a mixed number
Quot(a, b) == [int |-> a \div b, frac |-> a % b]

Whole(n) == [int |-> n, frac |-> 0]

\* q * b, the inverse of Quot(_, b)
Times(q, b) == q.int * b + q.frac

\* table[q] of a JavaScript array: undefined unless q is a whole index in range
Index(table, q) ==
  IF q.frac = 0 /\ q.int >= 0 /\ q.int < Len(table)
    THEN JsNum(table[q.int + 1])
    ELSE JsUndefined

(***************************************************************************)
(* String helpers                                                          *)
(***************************************************************************)
\* Mutant of PadStart: padEnd in place of padStart.
PadStart_End(s, n, ch) ==
  IF Len(s) >= n THEN s ELSE s \o [i \in 1..(n - Len(s)) |-> ch]

\* String.prototype.padStart(n, ch) with a one-character filler
PadStart(s, n, ch) ==
  IF Len(s) >= n THEN s ELSE [i \in 1..(n - Len(s)) |-> ch] \o s

RECURSIVE Replace(_, _, _)
\* String.prototype.replace(/ch/g, rep)
Replace(s, ch, rep) ==
  IF s = <<>> THEN <<>>
  ELSE (IF Head(s) = ch THEN rep ELSE <<Head(s)>>) \o Replace(Tail(s), ch, rep)

RECURSIVE ToString2(_)
\* Number.prototype.toString(2) of a non-negative integer
ToString2(n) ==
  IF n < 2 THEN <<(IF n = 0 THEN "0" ELSE "1")>>
  ELSE ToString2(n \div 2) \o <<(IF n % 2 = 0 THEN "0" ELSE "1")>>

Test == <<"t","e","s","t">>

UrlScheme == <<"h","t","t","p",":","/","/">>

UrlHeader == <<"/","c","m","?","c","m","n","d","=","r","f","r","a","w","%","2","0","A","A","B","0","5","8","0","4","0","3","0","1","8","8","1","3","E","8","0","3","1","0","6","5","1","0","8","0","8","0","8","0","8","0","8","0","8","0","8","0","8","0","8","0","8","0","8","0","8","1">>

UrlTrailer == <<"5","5">>

T82 == <<"8","2">>

TA0 == <<"A","0">>

T83 == <<"8","3">>

(***************************************************************************)
(* Program constants                                                       *)
(***************************************************************************)
COMMANDS ==
  [FAN |-> [OFF |-> 98, TOGGLE |-> 35, SPEED1 |-> 4, SPEED2 |-> 32, SPEED3 |-> 64,
            SPEED_DECREASE |-> 514, SPEED_INCREASE |-> 513, SPEED_MIN |-> 2,
            SPEED_MAX |-> 66],
   LIGHT |-> [ON |-> 138, OFF |-> 266, TOGGLE |-> 768,
              BRIGHTNESS1 |-> 10, BRIGHTNESS2 |-> 11, BRIGHTNESS3 |-> 12,
              BRIGHTNESS4 |-> 13, BRIGHTNESS5 |-> 14, BRIGHTNESS6 |-> 15,
              BRIGHTNESS7 |-> 72, BRIGHTNESS8 |-> 73,
              BRIGHTNESS_DECREASE |-> 265, BRIGHTNESS_INCREASE |-> 137,
              BRIGTHNESS_MIN |-> 9, BRIGHTNESS_MAX |-> 74],
   RECEIVER |-> [TOGGLE_DIMMING |-> 5, PAIR_REMOTE |-> 65]]

\* the command table of the two fan SET handlers
\* Mutant of fanCommands: the last slot holds RECEIVER.PAIR_REMOTE.
fanCommands_Pair ==
  <<COMMANDS.FAN.OFF, COMMANDS.FAN.SPEED1, COMMANDS.FAN.SPEED2,
    COMMANDS.RECEIVER.PAIR_REMOTE>>

fanCommands ==
  <<COMMANDS.FAN.OFF, COMMANDS.FAN.SPEED1, COMMANDS.FAN.SPEED2, COMMANDS.FAN.SPEED3>>

\* the command table of the Brightness SET handler
lightCommands ==
  <<COMMANDS.LIGHT.OFF, COMMANDS.LIGHT.BRIGHTNESS1, COMMANDS.LIGHT.BRIGHTNESS2,
    COMMANDS.LIGHT.BRIGHTNESS3, COMMANDS.LIGHT.BRIGHTNESS4, COMMANDS.LIGHT.BRIGHTNESS5,
    COMMANDS.LIGHT.BRIGHTNESS6, COMMANDS.LIGHT.BRIGHTNESS7, COMMANDS.LIGHT.BRIGHTNESS8>>

\* fanStep = 33.33, in hundredths of a percent
fanStep == 3333

\* the divisor of the Brightness SET handler and minStep of the characteristic
lightStep == 12

\* the width the remote id is padded to
roomWidth == 40

\* the width the command's binary string is padded to
commandWidth == 10

(***************************************************************************)
(* Inputs                                                                  *)
(***************************************************************************)
\* config.rfbridge / config.remote as given by the user; <<>> is a missing field
ConfigHosts == {<<>>, <<"r","f">>, Test}

ConfigRemotes == {<<>>, <<"0">>, Test}

\* constructor: config.rfbridge || "test", config.remote || "test"
OrTest(s) == IF s = <<>> THEN Test ELSE s

\* RotationSpeed values written by HomeKit, in hundredths of a percent:
\* 0, 33.33, 66.66 and the slider maximum 100, which is no multiple of fanStep
FanValues == {0, 3333, 6666, 10000}

\* Brightness values written by HomeKit, in percent
BrightnessValues == {0, 12}

\* Remote ids for the runs that call sendCommand directly: short and long
\* strings of 0 and 1, a decimal string with other digits, and one character
\* more than roomWidth
EncRemotes ==
  {<<"0">>, <<"1","1","0","1">>, <<"4","2">>, [i \in 1..(roomWidth + 1) |-> "1"]}

\* Command codes for the runs that call sendCommand directly
EncCodes == 0..(2^commandWidth - 1)

VARIABLES
  rfbridge,         \* this.rfbridge
  remote,           \* this.remote
  fanOn,            \* this.fanOn
  fanSpeed,         \* this.fanSpeed, a mixed number over fanStep
  lightOn,          \* this.lightOn
  lightBrightness,  \* this.lightBrightness, a mixed number over lightStep
  pendingCommand,   \* this.pendingCommand
  commandQueue,     \* this.commandQueue
  outstanding,      \* got() calls started and not yet settled, oldest first
  enqueued,         \* history: every entry pushed by addCommand, in order
  removed,          \* history: seq of every entry popped by runNextCommand, in order
  lastOp            \* the handler that ran last and what the framework saw of it

vars == <<rfbridge, remote, fanOn, fanSpeed, lightOn, lightBrightness,
          pendingCommand, commandQueue, outstanding, enqueued, removed, lastOp>>

cacheVars == <<fanOn, fanSpeed, lightOn, lightBrightness>>

configVars == <<rfbridge, remote>>

queueVars == <<pendingCommand, commandQueue, outstanding, enqueued, removed>>

(***************************************************************************)
(* sendCommand: the raw RF command builder                                 *)
(***************************************************************************)
\* typed-parameter default: sendCommand(command: number = -1)
DefaultArg(arg) == IF arg.type = "undefined" THEN JsNum(-1) ELSE arg

\* Mutant of InvalidCommand: only the sentinel is rejected, the typeof test is lost.
InvalidCommand_OnlySentinel(command) == command = JsNum(-1)

\* if(command === -1 || typeof command !== "number")
InvalidCommand(command) == command = JsNum(-1) \/ command.type # "number"

\* Mutant of room: the remote id is not padded.
room_NoPad(rem) ==
  TA0 \o Replace(Replace(rem, "0", T82), "1", TA0) \o T82

room(rem) ==
  TA0 \o Replace(Replace(PadStart(rem, roomWidth, "0"), "0", T82), "1", TA0) \o T82

\* Mutant of rfrawCommand: the two replacements run in the other order, so
\* the second one rewrites the 0 of every A0 the first one produced.
rfrawCommand_OnesFirst(command) ==
  T82 \o Replace(Replace(PadStart(ToString2(command), commandWidth, "0"), "1", TA0),
                 "0", T82) \o TA0

rfrawCommand(command) ==
  T82 \o Replace(Replace(PadStart(ToString2(command), commandWidth, "0"), "0", T82),
                 "1", TA0) \o TA0

\* Mutant of rfrawInverseCommand: the command block's substitution, 0 by 82
\* and 1 by A0, is used for the inverse block too.
rfrawInverseCommand_SameMap(command) ==
  TA0 \o Replace(Replace(PadStart(ToString2(command), commandWidth, "0"), "0", T82),
                 "1", TA0) \o T83

rfrawInverseCommand(command) ==
  TA0 \o Replace(Replace(PadStart(ToString2(command), commandWidth, "0"), "1", T82),
                 "0", TA0) \o T83

\* The three blocks are functions of the remote id and of the command alone;
\* they are tabulated once over the remote ids a run can have and over the
\* codes that fit commandWidth bits.
Remotes == {OrTest(r) : r \in ConfigRemotes} \cup EncRemotes

roomOf == [rem \in Remotes |-> room(rem)]

rfrawCommandOf == [command \in 0..(2^commandWidth - 1) |-> rfrawCommand(command)]

rfrawInverseCommandOf ==
  [command \in 0..(2^commandWidth - 1) |-> rfrawInverseCommand(command)]

\* Mutant of target: the inverse-command block is placed before the command
\* block.
target_InverseFirst(host, rem, command) ==
  UrlScheme \o host \o UrlHeader \o roomOf[rem] \o rfrawInverseCommandOf[command]
    \o rfrawCommandOf[command] \o UrlTrailer

target(host, rem, command) ==
  UrlScheme \o host \o UrlHeader \o roomOf[rem] \o rfrawCommandOf[command]
    \o rfrawInverseCommandOf[command] \o UrlTrailer

(***************************************************************************)
(* The command queue.  The operators below take and return the queue       *)
(* state d = [pendingCommand, commandQueue, outstanding, enqueued,         *)
(* removed], so that a handler's nested calls compose into one step.       *)
(* An entry carries, besides command and targetUrl, the history field seq: *)
(* its ordinal among all entries ever pushed.                              *)
(***************************************************************************)
Cur ==
  [pendingCommand |-> pendingCommand, commandQueue |-> commandQueue,
   outstanding |-> outstanding, enqueued |-> enqueued, removed |-> removed]

Becomes(d) ==
  /\ pendingCommand' = d.pendingCommand
  /\ commandQueue' = d.commandQueue
  /\ outstanding' = d.outstanding
  /\ enqueued' = d.enqueued
  /\ removed' = d.removed

\* Mutant of TestMode: && in place of ||.
TestMode_And == rfbridge = Test /\ remote = Test

\* this.rfbridge==="test"||this.remote==="test"
TestMode == rfbridge = Test \/ remote = Test

\* Mutant of PopIndex: shift() in place of pop().
PopIndex_Shift(q) == 1

\* Array.prototype.pop: the index of the element it removes
PopIndex(q) == Len(q)

\* Mutant of Without: the element is read but not removed.
Without_Keep(q, i) == q

\* the array after removing the element at index i
Without(q, i) == SubSeq(q, 1, i - 1) \o SubSeq(q, i + 1, Len(q))

\* Mutant of StartGot: the call is started but the flag is not set.
StartGot_NoFlag(d, nextCommand) ==
  [d EXCEPT !.outstanding = Append(@, [command |-> nextCommand.command,
                                       target |-> nextCommand.targetUrl,
                                       seq |-> nextCommand.seq])]

\* got(target): the call is outstanding until its promise settles
StartGot(d, nextCommand) ==
  [d EXCEPT !.pendingCommand = TRUE,
            !.outstanding = Append(@, [command |-> nextCommand.command,
                                       target |-> nextCommand.targetUrl,
                                       seq |-> nextCommand.seq])]

\* Mutant of runNextCommand: the pendingCommand test is lost.
runNextCommand_NoFlagCheck(d) ==
  IF d.commandQueue # <<>>
    THEN LET i == PopIndex(d.commandQueue)
             nextCommand == d.commandQueue[i]
             popped == [d EXCEPT !.commandQueue = Without(@, i),
                                 !.removed = Append(@, nextCommand.seq)]
         IN  IF ~TestMode THEN StartGot(popped, nextCommand) ELSE popped
    ELSE d

runNextCommand(d) ==
  IF ~d.pendingCommand
    THEN IF d.commandQueue # <<>>
           THEN LET i == PopIndex(d.commandQueue)
                    nextCommand == d.commandQueue[i]
                    popped == [d EXCEPT !.commandQueue = Without(@, i),
                                        !.removed = Append(@, nextCommand.seq)]
                IN  IF ~TestMode THEN StartGot(popped, nextCommand) ELSE popped
           ELSE d
    ELSE d

\* Mutant of addCommand: unshift() in place of push().
addCommand_Unshift(d, command, targetUrl) ==
  LET entry == [command |-> command, targetUrl |-> targetUrl,
                seq |-> Len(d.enqueued) + 1]
  IN  runNextCommand([d EXCEPT !.commandQueue = <<entry>> \o @,
                               !.enqueued = Append(@, entry)])

\* Mutant of addCommand: the entry is pushed and runNextCommand is not called.
addCommand_NoRun(d, command, targetUrl) ==
  LET entry == [command |-> command, targetUrl |-> targetUrl,
                seq |-> Len(d.enqueued) + 1]
  IN  [d EXCEPT !.commandQueue = Append(@, entry),
                !.enqueued = Append(@, entry)]

addCommand(d, command, targetUrl) ==
  LET entry == [command |-> command, targetUrl |-> targetUrl,
                seq |-> Len(d.enqueued) + 1]
  IN  runNextCommand([d EXCEPT !.commandQueue = Append(@, entry),
                               !.enqueued = Append(@, entry)])

sendCommand(d, arg) ==
  LET command == DefaultArg(arg)
  IN  IF InvalidCommand(command)
        THEN d
        ELSE addCommand(d, command.val, target(rfbridge, remote, command.val))

\* .then(response => log if verbose)
OnThen(d, call) == d

\* Mutant of OnCatch: the failed entry is pushed back for a retry.
OnCatch_Retry(d, call) ==
  [d EXCEPT !.commandQueue = Append(@, [command |-> call.command,
                                        targetUrl |-> call.target,
                                        seq |-> call.seq])]

\* .catch(error => log.warn)
OnCatch(d, call) == d

\* Mutant of OnFinally: the flag is released but the queue is not drained.
OnFinally_NoRearm(d) == [d EXCEPT !.pendingCommand = FALSE]

\* .finally(() => { this.pendingCommand = false; this.runNextCommand(); })
OnFinally(d) == runNextCommand([d EXCEPT !.pendingCommand = FALSE])

(***************************************************************************)
(* Handlers                                                                *)
(***************************************************************************)
\* what the framework sees of a handler: its name, the argument it handed to
\* sendCommand, how often it invoked its callback, and the callback's arguments
Seen(op, arg, n, result, outcome) ==
  [op |-> op, arg |-> arg, callbacks |-> n, err |-> JsUndefined,
   result |-> result, outcome |-> outcome]

\* Mutant of setCallbacks: no callback when the command is a no-op.
setCallbacks_SkipNoop(arg) == IF InvalidCommand(DefaultArg(arg)) THEN 0 ELSE 1

\* callback() at the end of every SET handler
setCallbacks(arg) == 1

SetFanActive(value) ==
  LET arg == IF value THEN Index(fanCommands, fanSpeed) ELSE JsNum(COMMANDS.FAN.OFF)
  IN  /\ fanOn' = value
      /\ Becomes(sendCommand(Cur, arg))
      /\ lastOp' = Seen("SetFanActive", arg, setCallbacks(arg), JsUndefined, "none")
      /\ UNCHANGED <<configVars, fanSpeed, lightOn, lightBrightness>>

\* Mutant of SetRotationSpeed: the new speed is stored also when it is 0.
SetRotationSpeed_StoreZero(value) ==
  LET newSpeed == Quot(value, fanStep)
      arg == Index(fanCommands, newSpeed)
  IN  /\ fanSpeed' = newSpeed
      /\ Becomes(sendCommand(Cur, arg))
      /\ lastOp' = Seen("SetRotationSpeed", arg, setCallbacks(arg), JsUndefined, "none")
      /\ UNCHANGED <<configVars, fanOn, lightOn, lightBrightness>>

SetRotationSpeed(value) ==
  LET newSpeed == Quot(value, fanStep)
      arg == Index(fanCommands, newSpeed)
  IN  /\ fanSpeed' = IF newSpeed = Whole(0) THEN fanSpeed ELSE newSpeed
      /\ Becomes(sendCommand(Cur, arg))
      /\ lastOp' = Seen("SetRotationSpeed", arg, setCallbacks(arg), JsUndefined, "none")
      /\ UNCHANGED <<configVars, fanOn, lightOn, lightBrightness>>

SetLightOn(value) ==
  LET arg == JsNum(IF value THEN COMMANDS.LIGHT.ON ELSE COMMANDS.LIGHT.OFF)
  IN  /\ lightOn' = value
      /\ Becomes(sendCommand(Cur, arg))
      /\ lastOp' = Seen("SetLightOn", arg, setCallbacks(arg), JsUndefined, "none")
      /\ UNCHANGED <<configVars, fanOn, fanSpeed, lightBrightness>>

SetBrightness(value) ==
  LET newBrightness == Quot(value, lightStep)
      arg == Index(lightCommands, newBrightness)
  IN  /\ lightBrightness' = IF newBrightness = Whole(0) THEN lightBrightness
                            ELSE newBrightness
      /\ Becomes(sendCommand(Cur, arg))
      /\ lastOp' = Seen("SetBrightness", arg, setCallbacks(arg), JsUndefined, "none")
      /\ UNCHANGED <<configVars, fanOn, fanSpeed, lightOn>>

GetFanActive ==
  /\ lastOp' = Seen("GetFanActive", JsUndefined, 1, JsBool(fanOn), "none")
  /\ UNCHANGED <<configVars, cacheVars, queueVars>>

\* Mutant of GetRotationSpeed: the cached level is returned unscaled.
GetRotationSpeed_Raw ==
  /\ lastOp' = Seen("GetRotationSpeed", JsUndefined, 1, JsNum(fanSpeed.int), "none")
  /\ UNCHANGED <<configVars, cacheVars, queueVars>>

GetRotationSpeed ==
  /\ lastOp' = Seen("GetRotationSpeed", JsUndefined, 1,
                    JsNum(Times(fanSpeed, fanStep)), "none")
  /\ UNCHANGED <<configVars, cacheVars, queueVars>>

GetLightOn ==
  /\ lastOp' = Seen("GetLightOn", JsUndefined, 1, JsBool(lightOn), "none")
  /\ UNCHANGED <<configVars, cacheVars, queueVars>>

GetBrightness ==
  /\ lastOp' = Seen("GetBrightness", JsUndefined, 1,
                    JsNum(Times(lightBrightness, lightStep)), "none")
  /\ UNCHANGED <<configVars, cacheVars, queueVars>>

\* the promise of the i-th outstanding got() call settles with the given outcome
Finally(i, outcome) ==
  /\ i \in 1..Len(outstanding)
  /\ LET call == outstanding[i]
         settled == [Cur EXCEPT !.outstanding =
                                  SubSeq(@, 1, i - 1) \o SubSeq(@, i + 1, Len(@))]
         handled == IF outcome = "success" THEN OnThen(settled, call)
                    ELSE OnCatch(settled, call)
     IN  Becomes(OnFinally(handled))
  /\ lastOp' = Seen("Finally", JsUndefined, 0, JsUndefined, outcome)
  /\ UNCHANGED <<configVars, cacheVars>>

Init ==
  /\ rfbridge \in {OrTest(h) : h \in ConfigHosts}
  /\ remote \in {OrTest(r) : r \in ConfigRemotes}
  /\ fanOn = FALSE
  /\ fanSpeed = Whole(1)
  /\ lightOn = FALSE
  /\ lightBrightness = Whole(8)
  /\ pendingCommand = FALSE
  /\ commandQueue = <<>>
  /\ outstanding = <<>>
  /\ enqueued = <<>>
  /\ removed = <<>>
  /\ lastOp = Seen("constructor", JsUndefined, 0, JsUndefined, "none")

SetStep ==
  \/ \E value \in BOOLEAN : SetFanActive(value)
  \/ \E value \in FanValues : SetRotationSpeed(value)
  \/ \E value \in BOOLEAN : SetLightOn(value)
  \/ \E value \in BrightnessValues : SetBrightness(value)

GetStep == GetFanActive \/ GetRotationSpeed \/ GetLightOn \/ GetBrightness

Settle == \E i \in 1..Len(outstanding), outcome \in {"success", "failure"} :
            Finally(i, outcome)

\* SET events and transport completions, at most MaxEnq entries per run
Next == (SetStep /\ Len(enqueued') <= MaxEnq) \/ Settle

Spec == Init /\ [][Next]_vars

\* SET events and transport completions, at most MaxLiveEnq entries per run
LiveNext == (SetStep /\ Len(enqueued') <= MaxLiveEnq) \/ Settle

\* finitely many entries are enqueued and every started transport call
\* eventually settles; SET events are under no fairness
LiveSpec == Init /\ [][LiveNext]_vars /\ WF_vars(Settle)

\* sendCommand, a public method, called once with a number: the call is
\* pending in the initial state and made by SendCommandCall
EncInit ==
  /\ rfbridge \in {OrTest(h) : h \in ConfigHosts}
  /\ remote \in Remotes
  /\ fanOn = FALSE
  /\ fanSpeed = Whole(1)
  /\ lightOn = FALSE
  /\ lightBrightness = Whole(8)
  /\ pendingCommand = FALSE
  /\ commandQueue = <<>>
  /\ outstanding = <<>>
  /\ enqueued = <<>>
  /\ removed = <<>>
  /\ \E command \in EncCodes :
       lastOp = Seen("call", JsNum(command), 0, JsUndefined, "none")

SendCommandCall ==
  /\ lastOp.op = "call"
  /\ Becomes(sendCommand(Cur, lastOp.arg))
  /\ lastOp' = Seen("sendCommand", lastOp.arg, 0, JsUndefined, "none")
  /\ UNCHANGED <<configVars, cacheVars>>

EncNext == SendCommandCall \/ Settle

EncSpec == EncInit /\ [][EncNext]_vars

\* the speed levels of the fan, level * fanStep being the value written
FanLevels == 0..3

\* the brightness levels of the light, level * lightStep being the value written
BrightnessLevels == 0..8

\* the SET events with every speed and brightness written at a whole level
LevelSetStep ==
  \/ \E value \in BOOLEAN : SetFanActive(value)
  \/ \E level \in FanLevels : SetRotationSpeed(level * fanStep)
  \/ \E value \in BOOLEAN : SetLightOn(value)
  \/ \E level \in BrightnessLevels : SetBrightness(level * lightStep)

\* SET events at whole levels and transport completions, at most
\* MaxLevelEnq entries per run
LevelNext == (LevelSetStep /\ Len(enqueued') <= MaxLevelEnq) \/ Settle

LevelSpec == Init /\ [][LevelNext]_vars

\* all events, GET events included, at most MaxGetEnq entries per run
GetNext == (SetStep /\ Len(enqueued') <= MaxGetEnq) \/ Settle \/ GetStep

GetSpec == Init /\ [][GetNext]_vars

(***************************************************************************)
(* Properties                                                              *)
(***************************************************************************)
SetOps == {"SetFanActive", "SetRotationSpeed", "SetLightOn", "SetBrightness"}

GetOps == {"GetFanActive", "GetRotationSpeed", "GetLightOn", "GetBrightness"}

Range(q) == {q[i] : i \in 1..Len(q)}

Seqs(q) == [i \in 1..Len(q) |-> q[i].seq]

IsPrefix(s, t) == Len(s) <= Len(t) /\ s = SubSeq(t, 1, Len(s))

NonTest == ~(rfbridge = Test \/ remote = Test)

\* a further entry, as addCommand would push it next
Probe ==
  [command |-> COMMANDS.FAN.OFF,
   targetUrl |-> target(rfbridge, remote, COMMANDS.FAN.OFF),
   seq |-> Len(enqueued) + 1]

\* C1: in non-test mode at most one got() call is outstanding in every
\* reachable state, pendingCommand is true exactly while one is outstanding,
\* and in every reachable state pushing a further entry and invoking
\* runNextCommand twice in succession leaves at most one call outstanding, the
\* second invocation changing nothing.
C1_SingleFlight ==
  NonTest =>
    /\ Len(outstanding) <= 1
    /\ pendingCommand <=> Len(outstanding) = 1
    /\ LET pushed == [Cur EXCEPT !.commandQueue = Append(@, Probe)]
           once == runNextCommand(pushed)
           twice == runNextCommand(once)
       IN  Len(once.outstanding) <= 1 /\ twice = once

\* C1 witness: a call is in flight and two entries enqueued meanwhile wait.
C1_Witness ==
  NonTest /\ pendingCommand /\ Len(outstanding) = 1 /\ Len(commandQueue) = 2

\* C2 as stated: once A, B, C are enqueued, the transport calls made so far
\* are C, B, A in that order (a prefix of it while calls remain to be made).
C2_OrderCBA ==
  (NonTest /\ Len(enqueued) = 3) => IsPrefix(removed, <<3, 2, 1>>)

\* C2 amended: the first transport call is always for A, made when A is
\* enqueued; with A, B, C enqueued and B, C both waiting while A is in flight,
\* the completion of A dispatches C and the completion of C dispatches B:
\* the order is A, C, B.
C2_OrderACB ==
  /\ [](NonTest /\ removed # <<>> => removed[1] = 1)
  /\ [][(NonTest /\ lastOp'.op = "Finally" /\ Len(enqueued) = 3
           /\ Len(enqueued') = 3) =>
          /\ (removed = <<1>> => removed' = <<1, 3>>)
          /\ (removed = <<1, 3>> => removed' = <<1, 3, 2>>)]_vars

\* C2 witness: A, B, C were transported in the order A, C, B.
C2_Witness ==
  NonTest /\ Len(enqueued) = 3 /\ removed = <<1, 3, 2>> /\ lastOp.op = "Finally"

\* C3: when a transport call settles while two or more entries wait, the
\* entry dispatched in that step is the waiting entry enqueued last, and the
\* other waiting entries stay queued in their order.
C3_NewestWaitingFirst ==
  [][(lastOp'.op = "Finally" /\ Len(commandQueue) >= 2) =>
       LET newest == CHOOSE e \in Range(commandQueue) :
                       \A f \in Range(commandQueue) : f.seq <= e.seq
       IN  /\ Len(outstanding') = 1
           /\ outstanding'[1].seq = newest.seq
           /\ removed' = Append(removed, newest.seq)
           /\ commandQueue' = SelectSeq(commandQueue, LAMBDA e : e # newest)]_vars

\* C3 witness: a completion has dispatched the newer of two waiting entries,
\* and the older one still waits.
C3_Witness ==
  /\ lastOp.op = "Finally"
  /\ Len(outstanding) = 1
  /\ Len(commandQueue) = 1
  /\ outstanding[1].seq = 3
  /\ commandQueue[1].seq = 2

\* C4: a settling transport call, whatever its outcome, leaves the flag
\* released and nothing outstanding if no entry waits, and otherwise
\* dispatches the last entry of the queue in the same step; the entry of the
\* settled call is not pushed again.
C4_SettleReleasesAndDrains ==
  [][lastOp'.op = "Finally" =>
       /\ enqueued' = enqueued
       /\ IF commandQueue = <<>>
            THEN /\ ~pendingCommand'
                 /\ outstanding' = <<>>
                 /\ commandQueue' = <<>>
                 /\ removed' = removed
            ELSE LET next == commandQueue[Len(commandQueue)]
                 IN  /\ pendingCommand'
                     /\ outstanding' = <<[command |-> next.command,
                                          target |-> next.targetUrl,
                                          seq |-> next.seq]>>
                     /\ commandQueue' = SubSeq(commandQueue, 1, Len(commandQueue) - 1)
                     /\ removed' = Append(removed, next.seq)]_vars

\* C4 witness: a call has failed and the next entry was dispatched in its
\* completion step.
C4_Witness ==
  /\ lastOp.op = "Finally"
  /\ lastOp.outcome = "failure"
  /\ pendingCommand
  /\ Len(removed) >= 2
  /\ Len(outstanding) = 1

Drained ==
  /\ commandQueue = <<>>
  /\ ~pendingCommand
  /\ outstanding = <<>>
  /\ Len(removed) = Len(enqueued)

\* C5: in non-test mode, if every started transport call eventually settles,
\* the queue is eventually empty and idle for good, every entry having been
\* removed for dispatch.
C5_EventuallyDrained == <>[](NonTest => Drained)

\* C5 witness: the second entry waited while the first was in flight, was
\* dispatched by the first completion, and the queue has drained with the
\* second completion.
C5_Witness ==
  /\ NonTest
  /\ Drained
  /\ removed = <<1, 2>>
  /\ lastOp.op = "Finally"
  /\ enqueued[1].command = COMMANDS.LIGHT.ON
  /\ enqueued[2].command = COMMANDS.LIGHT.OFF

\* C6: in test mode no got() call is ever outstanding, pendingCommand is
\* never true, and after every handler the queue is empty, every entry
\* having been removed in the order it was pushed.
C6_TestModeNoTransport ==
  (rfbridge = Test \/ remote = Test) =>
    /\ outstanding = <<>>
    /\ ~pendingCommand
    /\ commandQueue = <<>>
    /\ removed = [i \in 1..Len(enqueued) |-> i]

\* C6 witness: only the remote id is "test" and three commands were enqueued.
C6_Witness ==
  rfbridge # Test /\ remote = Test /\ Len(enqueued) = 3 /\ Len(removed) = 3

\* C7: the entries pushed so far are exactly the entries waiting plus the
\* entries removed, each once; a waiting entry is the entry that was pushed;
\* an outstanding call is for a removed entry and carries its targetUrl.
C7_EntriesConserved ==
  /\ Len(commandQueue) + Len(removed) = Len(enqueued)
  /\ Range(Seqs(commandQueue)) \cup Range(removed) = 1..Len(enqueued)
  /\ \A i \in 1..Len(commandQueue) : commandQueue[i] = enqueued[commandQueue[i].seq]
  /\ \A i \in 1..Len(outstanding) :
       /\ outstanding[i].seq \in Range(removed)
       /\ outstanding[i].target = enqueued[outstanding[i].seq].targetUrl
       /\ outstanding[i].command = enqueued[outstanding[i].seq].command

\* C7 witness: of three entries one waits, one was transported and one is in
\* flight.
C7_Witness ==
  NonTest /\ Len(commandQueue) = 1 /\ Len(removed) = 2 /\ Len(outstanding) = 1

\* arguments sendCommand treats as "no command"
NoCommandArgs == {JsNum(-1), JsUndefined, [type |-> "string", val |-> 0]}

\* C8: in every reachable state, sendCommand called with -1, with undefined
\* or with a non-number leaves the queue, the flag and the outstanding calls
\* as they are and pushes no entry.
C8_InvalidCommandNoOp ==
  \A arg \in NoCommandArgs : sendCommand(Cur, arg) = Cur

\* C8 witness: a SET handler has handed undefined to sendCommand while a call
\* was in flight and an entry waited.
C8_Witness ==
  /\ lastOp.op \in SetOps
  /\ lastOp.arg = JsUndefined
  /\ pendingCommand
  /\ commandQueue # <<>>

\* C9: a SET handler invokes its callback exactly once and without an error,
\* also when its command is a no-op, and in non-test mode the entry it pushed
\* is at that point still waiting or in flight; a completion invokes no
\* callback.
C9_SetCallbackOnce ==
  /\ lastOp.op \in SetOps =>
       /\ lastOp.callbacks = 1
       /\ lastOp.err = JsUndefined
       /\ lastOp.result = JsUndefined
       /\ (NonTest /\ lastOp.arg.type = "number") =>
            Len(enqueued) \in Range(Seqs(commandQueue)) \cup Range(Seqs(outstanding))
  /\ lastOp.op = "Finally" => lastOp.callbacks = 0

\* C9 witness: the Active SET handler ran with a command that is a no-op.
C9_Witness ==
  lastOp.op = "SetFanActive" /\ lastOp.arg = JsUndefined /\ lastOp.callbacks = 1

\* the value a GET handler answers with, from the cache
Cached(op) ==
  CASE op = "GetFanActive" -> JsBool(fanOn)
    [] op = "GetRotationSpeed" -> JsNum(fanSpeed.int * fanStep + fanSpeed.frac)
    [] op = "GetLightOn" -> JsBool(lightOn)
    [] op = "GetBrightness" -> JsNum(lightBrightness.int * lightStep + lightBrightness.frac)

\* C10: a GET handler invokes its callback once, without an error and with
\* the cached value, and leaves the queue, the flag, the outstanding calls
\* and the cached values unchanged.
C10_GetReadsCache ==
  [][lastOp'.op \in GetOps =>
       /\ lastOp'.callbacks = 1
       /\ lastOp'.err = JsUndefined
       /\ lastOp'.result = Cached(lastOp'.op)
       /\ UNCHANGED <<configVars, cacheVars, queueVars>>]_vars

\* C10 witness: the rotation speed was read while a call was in flight and an
\* entry waited.
C10_Witness ==
  /\ lastOp.op = "GetRotationSpeed"
  /\ lastOp.result = JsNum(6666)
  /\ pendingCommand
  /\ commandQueue # <<>>

\* C11: in every reachable state runNextCommand changes nothing when
\* pendingCommand is true or the queue is empty, also with a further entry
\* pushed while pendingCommand is true; with a further entry pushed while
\* idle in non-test mode it removes that one entry, sets pendingCommand and
\* starts one transport call for it, and nothing else.
C11_RunNextFrame ==
  LET pushed == [Cur EXCEPT !.commandQueue = Append(@, Probe)]
      after == runNextCommand(pushed)
  IN  /\ (pendingCommand \/ commandQueue = <<>>) => runNextCommand(Cur) = Cur
      /\ pendingCommand => after = pushed
      /\ (~pendingCommand /\ NonTest) =>
           after = [pendingCommand |-> TRUE,
                    commandQueue |-> commandQueue,
                    outstanding |-> Append(outstanding,
                                           [command |-> Probe.command,
                                            target |-> Probe.targetUrl,
                                            seq |-> Probe.seq]),
                    enqueued |-> enqueued,
                    removed |-> Append(removed, Probe.seq)]

\* C11 witness: a SET handler has pushed the only entry of the run while
\* idle, and runNextCommand has removed it and started its transport call.
C11_Witness ==
  /\ NonTest
  /\ lastOp.op \in SetOps
  /\ Len(enqueued) = 1
  /\ commandQueue = <<>>
  /\ pendingCommand
  /\ Len(outstanding) = 1
  /\ outstanding[1].target = enqueued[1].targetUrl

(***************************************************************************)
(* Properties of the payload built by sendCommand, under EncSpec           *)
(***************************************************************************)
\* sendCommand has been called with the number lastOp.arg.val
Called == lastOp.op = "sendCommand"

\* the targetUrl sendCommand handed to addCommand
Built == enqueued[1].targetUrl

\* bit i of v, i = 1 the most significant of 10
Bit(v, i) == (v \div 2^(10 - i)) % 2

RECURSIVE Base2(_)
\* the number a string of binary digits denotes
Base2(b) ==
  IF b = <<>> THEN 0
  ELSE 2 * Base2(SubSeq(b, 1, Len(b) - 1)) + (IF b[Len(b)] = "1" THEN 1 ELSE 0)

\* the i-th two-character token of a string
Token(s, i) == <<s[2 * i - 1], s[2 * i]>>

\* the last 50 characters of a targetUrl: command block, inverse-command block, 55
CommandBlock(url) == SubSeq(url, Len(url) - 49, Len(url) - 26)

InverseBlock(url) == SubSeq(url, Len(url) - 25, Len(url) - 2)

\* a block without its prefix and suffix token
Body(block) == SubSeq(block, 3, Len(block) - 2)

\* C12: for every v in 0..1023 the string toString(2).padStart(10, "0") has
\* 10 characters, character i being bit i of v with the most significant bit
\* first, it denotes v in base 2, for 98 it is 0001100010, and it is the
\* string the command block of the built targetUrl spells, 82 for 0 and A0
\* for 1.
C12_BinaryString ==
  Called =>
    LET v == lastOp.arg.val
        b == PadStart(ToString2(v), commandWidth, "0")
    IN  /\ Len(b) = 10
        /\ \A i \in 1..10 : b[i] = (IF Bit(v, i) = 1 THEN "1" ELSE "0")
        /\ Base2(b) = v
        /\ v = 98 => b = <<"0","0","0","1","1","0","0","0","1","0">>
        /\ \A i \in 1..10 :
             Token(Body(CommandBlock(Built)), i) = (IF b[i] = "1" THEN TA0 ELSE T82)

\* C12 witness: sendCommand was called with 98, and with 1023 and 0 the
\* extremes are reached in other runs.
C12_Witness ==
  Called /\ lastOp.arg.val = 98 /\ rfbridge = Test /\ remote = Test

\* the 10-bit binary string of v, most significant bit first
Bits(v) == [i \in 1..10 |-> IF Bit(v, i) = 1 THEN "1" ELSE "0"]

\* the bitwise complement of a binary string
Complement(b) == [i \in 1..Len(b) |-> IF b[i] = "1" THEN "0" ELSE "1"]

\* C13 as stated: the inverse-command block is A0, then the complement of
\* the code's 10-bit string with each 1 of the complement replaced by 82 and
\* each 0 of it by A0, then 83.
C13_ComplementThenSwapped ==
  Called =>
    /\ Len(InverseBlock(Built)) = 24
    /\ Token(InverseBlock(Built), 1) = TA0
    /\ Token(InverseBlock(Built), 12) = T83
    /\ \A i \in 1..10 :
         Token(Body(InverseBlock(Built)), i) =
           (IF Complement(Bits(lastOp.arg.val))[i] = "1" THEN T82 ELSE TA0)

\* C13 amended: the inverse-command block is A0, then the code's 10-bit
\* string itself with each 1 replaced by 82 and each 0 by A0, then 83; that
\* is the complement of the string under the command block's substitution
\* (0 by 82, 1 by A0).
C13_SwappedOnBits ==
  Called =>
    /\ Len(InverseBlock(Built)) = 24
    /\ Token(InverseBlock(Built), 1) = TA0
    /\ Token(InverseBlock(Built), 12) = T83
    /\ \A i \in 1..10 :
         /\ Token(Body(InverseBlock(Built)), i) =
              (IF Bits(lastOp.arg.val)[i] = "1" THEN T82 ELSE TA0)
         /\ Token(Body(InverseBlock(Built)), i) =
              (IF Complement(Bits(lastOp.arg.val))[i] = "0" THEN T82 ELSE TA0)

\* C13 witness: sendCommand was called with 1023, whose inverse-command body
\* is ten tokens 82.
C13_Witness ==
  /\ Called
  /\ lastOp.arg.val = 1023
  /\ Body(InverseBlock(Built)) = [i \in 1..20 |-> IF i % 2 = 1 THEN "8" ELSE "2"]

\* the text of the built target after http://{rfbridge}
AfterHost(url) == SubSeq(url, 7 + Len(rfbridge) + 1, Len(url))

\* the room block: what lies between the fixed header and the last 50
\* characters (command block, inverse-command block and trailer)
RoomBlock(url) == SubSeq(AfterHost(url), 68, Len(AfterHost(url)) - 50)

\* the golden descriptor for command 98 and address "0", piece by piece
GoldenPath == <<"/","c","m","?","c","m","n","d","=","r","f","r","a","w","%","2","0">>

GoldenHeader == <<"A","A","B","0","5","8","0","4","0","3","0","1","8","8","1","3","E","8","0","3","1","0","6","5","1","0","8","0","8","0","8","0","8","0","8","0","8","0","8","0","8","0","8","0","8","0","8","0","8","1">>

GoldenRoom == TA0 \o [i \in 1..80 |-> IF i % 2 = 1 THEN "8" ELSE "2"] \o T82

GoldenCommand == <<"8","2","8","2","8","2","8","2","A","0","A","0","8","2","8","2","8","2","A","0","8","2","A","0">>

GoldenInverse == <<"A","0","A","0","A","0","A","0","8","2","8","2","A","0","A","0","A","0","8","2","A","0","8","3">>

\* C14: the target is http://{rfbridge}/cm?cmnd=rfraw%20, then the fixed
\* header, the room block, the command block, the inverse-command block and
\* the trailer 55, in this order with nothing in between; for command 98 and
\* address "0" it is the golden text.
C14_TargetLayout ==
  Called =>
    /\ SubSeq(Built, 1, 7) = <<"h","t","t","p",":","/","/">>
    /\ SubSeq(Built, 8, 7 + Len(rfbridge)) = rfbridge
    /\ AfterHost(Built) =
         GoldenPath \o GoldenHeader \o RoomBlock(Built) \o CommandBlock(Built)
           \o InverseBlock(Built) \o <<"5","5">>
    /\ Len(CommandBlock(Built)) = 24 /\ Len(InverseBlock(Built)) = 24
    /\ Token(CommandBlock(Built), 1) = T82 /\ Token(CommandBlock(Built), 12) = TA0
    /\ Token(InverseBlock(Built), 1) = TA0 /\ Token(InverseBlock(Built), 12) = T83
    /\ \A i \in 1..10 :
         Token(Body(CommandBlock(Built)), i) =
           (IF Bit(lastOp.arg.val, i) = 1 THEN TA0 ELSE T82)
    /\ (lastOp.arg.val = 98 /\ remote = <<"0">>) =>
         AfterHost(Built) =
           GoldenPath \o GoldenHeader \o GoldenRoom \o GoldenCommand \o GoldenInverse
             \o <<"5","5">>

\* C14 witness: the target for command 98 and address "0" was built for a
\* real bridge and its request is in flight.
C14_Witness ==
  /\ Called
  /\ lastOp.arg.val = 98
  /\ remote = <<"0">>
  /\ rfbridge = <<"r","f">>
  /\ Len(outstanding) = 1
  /\ RoomBlock(Built) = GoldenRoom

\* a string of decimal digits, a string of binary digits
IsDecimal(a) == \A i \in 1..Len(a) : a[i] \in {"0","1","2","3","4","5","6","7","8","9"}

IsBinary(a) == \A i \in 1..Len(a) : a[i] \in {"0","1"}

\* the address left-padded with 0 to 40 characters (longer ones are kept whole)
Padded(a) ==
  IF Len(a) >= 40 THEN a ELSE [i \in 1..40 |-> IF i <= 40 - Len(a) THEN "0" ELSE a[i - (40 - Len(a))]]

\* each 0 turned into 82 and each 1 into A0, every other character kept
RECURSIVE Substituted(_)
Substituted(p) ==
  IF p = <<>> THEN <<>>
  ELSE (CASE Head(p) = "0" -> T82 [] Head(p) = "1" -> TA0 [] OTHER -> <<Head(p)>>)
         \o Substituted(Tail(p))

\* C15 as stated: for every decimal-digit address the room block is A0, the
\* padded and substituted address, 82, and so always 42 two-character tokens.
C15_AlwaysFortyTwoTokens ==
  (Called /\ IsDecimal(remote)) =>
    /\ RoomBlock(Built) = TA0 \o Substituted(Padded(remote)) \o T82
    /\ Len(RoomBlock(Built)) = 2 * 42
    /\ \A i \in 1..42 : Token(RoomBlock(Built), i) \in {T82, TA0}

\* C15 amended: for every address the room block is A0, the padded and
\* substituted address, 82; it consists of 42 two-character tokens, token
\* i + 1 being A0 exactly when character i of the padded address is 1, when
\* the address is a string of the characters 0 and 1 of at most 40
\* characters.
C15_RoomBlock ==
  Called =>
    /\ RoomBlock(Built) = TA0 \o Substituted(Padded(remote)) \o T82
    /\ (IsBinary(remote) /\ Len(remote) <= 40) =>
         /\ Len(RoomBlock(Built)) = 2 * 42
         /\ Token(RoomBlock(Built), 1) = TA0
         /\ Token(RoomBlock(Built), 42) = T82
         /\ \A i \in 1..40 :
              Token(RoomBlock(Built), i + 1) =
                (IF Padded(remote)[i] = "1" THEN TA0 ELSE T82)

\* C15 witness: the room block of address 1101 was built: 36 tokens 82 for
\* the padding, then A0 A0 82 A0.
C15_Witness ==
  /\ Called
  /\ remote = <<"1","1","0","1">>
  /\ Len(RoomBlock(Built)) = 84
  /\ \A i \in 2..37 : Token(RoomBlock(Built), i) = T82
  /\ Token(RoomBlock(Built), 38) = TA0
  /\ Token(RoomBlock(Built), 39) = TA0
  /\ Token(RoomBlock(Built), 40) = T82
  /\ Token(RoomBlock(Built), 41) = TA0

\* C16: for every code in 0..1023 the command body and the inverse body are
\* 10 two-character tokens each, drawn from 82 and A0, that differ at every
\* position: inverse token i is 82 exactly when command token i is A0,
\* exactly when bit i of the code is 1; no replacement rewrote the output of
\* the earlier one, so both bodies are the character-by-character
\* substitution of the bit string.
C16_BodiesComplementary ==
  Called =>
    LET cmd == Body(CommandBlock(Built))
        inv == Body(InverseBlock(Built))
        v   == lastOp.arg.val
    IN  /\ v \in 0..1023
        /\ Len(cmd) = 20 /\ Len(inv) = 20
        /\ \A i \in 1..10 :
             /\ Token(cmd, i) \in {T82, TA0}
             /\ Token(inv, i) \in {T82, TA0}
             /\ Token(cmd, i) # Token(inv, i)
             /\ (Token(inv, i) = T82) <=> (Token(cmd, i) = TA0)
             /\ (Token(cmd, i) = TA0) <=> (Bit(v, i) = 1)
        /\ cmd = Substituted(Bits(v))
        /\ inv = Substituted(Complement(Bits(v)))
        /\ Built = UrlScheme \o rfbridge \o UrlHeader \o RoomBlock(Built)
                     \o T82 \o cmd \o TA0 \o TA0 \o inv \o T83 \o UrlTrailer

\* C16 witness: code 682, bits 1010101010, was built: the command body
\* alternates A0 82 and the inverse body alternates 82 A0.
C16_Witness ==
  /\ Called
  /\ lastOp.arg.val = 682
  /\ \A i \in 1..10 :
       /\ Token(Body(CommandBlock(Built)), i) = (IF i % 2 = 1 THEN TA0 ELSE T82)
       /\ Token(Body(InverseBlock(Built)), i) = (IF i % 2 = 1 THEN T82 ELSE TA0)

\* C17: in every state between handlers, pendingCommand false implies an
\* empty commandQueue, so entries wait only while a transport call is in
\* flight; and a SET handler that enqueues a command while idle dispatches
\* that very entry before it returns (with a transport call and the flag set
\* when a bridge is configured, without either in test mode).
C17_IdleImpliesEmptyQueue ==
  /\ [](/\ ~pendingCommand => commandQueue = <<>>
        /\ commandQueue # <<>> => (pendingCommand /\ Len(outstanding) = 1))
  /\ [][(/\ lastOp'.op \in SetOps
         /\ ~pendingCommand
         /\ Len(enqueued') = Len(enqueued) + 1) =>
          LET entry == enqueued'[Len(enqueued')]
          IN  /\ commandQueue' = <<>>
              /\ removed' = Append(removed, entry.seq)
              /\ IF rfbridge = Test \/ remote = Test
                   THEN ~pendingCommand' /\ outstanding' = <<>>
                   ELSE /\ pendingCommand'
                        /\ outstanding' = <<[command |-> entry.command,
                                             target |-> entry.targetUrl,
                                             seq |-> entry.seq]>>]_vars

\* C17 witness: after the first entry was sent and its call settled, a SET
\* handler enqueued a second entry while idle and it is already in flight,
\* the queue being empty.
C17_Witness ==
  /\ NonTest
  /\ lastOp.op \in SetOps
  /\ Len(enqueued) = 2
  /\ removed = <<1, 2>>
  /\ commandQueue = <<>>
  /\ pendingCommand
  /\ Len(outstanding) = 1
  /\ outstanding[1].seq = 2

(***************************************************************************)
(* Properties of the SET handlers at whole levels, under LevelSpec          *)
(***************************************************************************)

\* the codes the four SET handlers may send
HandlerCodes ==
  {COMMANDS.FAN.OFF, COMMANDS.FAN.SPEED1, COMMANDS.FAN.SPEED2, COMMANDS.FAN.SPEED3,
   COMMANDS.LIGHT.ON, COMMANDS.LIGHT.OFF,
   COMMANDS.LIGHT.BRIGHTNESS1, COMMANDS.LIGHT.BRIGHTNESS2, COMMANDS.LIGHT.BRIGHTNESS3,
   COMMANDS.LIGHT.BRIGHTNESS4, COMMANDS.LIGHT.BRIGHTNESS5, COMMANDS.LIGHT.BRIGHTNESS6,
   COMMANDS.LIGHT.BRIGHTNESS7, COMMANDS.LIGHT.BRIGHTNESS8}

\* C18: with speeds written at levels 0..3 and brightness at levels 0..8,
\* every code that reaches commandQueue is one of FAN.OFF, FAN.SPEED1..3,
\* LIGHT.ON, LIGHT.OFF, LIGHT.BRIGHTNESS1..8 and lies in 0..1023, and the
\* command body of its payload is the 10 tokens of its 10 bits.
C18_HandlerCodesFit ==
  \A i \in 1..Len(enqueued) :
    LET e == enqueued[i]
    IN  /\ e.command \in HandlerCodes
        /\ e.command \in {98, 4, 32, 64, 138, 266, 10, 11, 12, 13, 14, 15, 72, 73}
        /\ e.command >= 0 /\ e.command <= 1023
        /\ Body(CommandBlock(e.targetUrl)) = Substituted(Bits(e.command))

\* C18 witness: the highest speed level and the highest brightness level
\* were written and their codes, 64 and 73, were enqueued.
C18_Witness ==
  /\ lastOp.op = "SetBrightness"
  /\ Len(enqueued) = 2
  /\ enqueued[1].command = 64
  /\ enqueued[2].command = 73

\* the command of the entry a step has enqueued, -1 if it has enqueued none
Sent ==
  IF enqueued' = Append(enqueued, enqueued'[Len(enqueued')])
    THEN enqueued'[Len(enqueued')].command
    ELSE -1

\* C19: with speeds written at levels 0..3 the cached fanSpeed is 1, 2 or 3
\* in every reachable state: a RotationSpeed SET to level 0 enqueues FAN.OFF
\* and leaves fanSpeed alone, one to another level stores that level, and an
\* Active SET to true enqueues the SPEED command of the level fanSpeed holds;
\* a Brightness SET to level 0 enqueues LIGHT.OFF and leaves lightBrightness
\* alone.
C19_SpeedRetained ==
  /\ [](fanSpeed \in {[int |-> 1, frac |-> 0], [int |-> 2, frac |-> 0],
                      [int |-> 3, frac |-> 0]})
  /\ [][/\ (lastOp'.op = "SetRotationSpeed" /\ lastOp'.arg.val = 98) =>
             (Sent = 98 /\ fanSpeed' = fanSpeed)
        /\ (lastOp'.op = "SetRotationSpeed" /\ lastOp'.arg.val # 98) =>
             (/\ fanSpeed'.frac = 0
              /\ Sent = <<4, 32, 64>>[fanSpeed'.int])
        /\ (lastOp'.op = "SetFanActive" /\ fanOn') =>
             (/\ fanSpeed' = fanSpeed
              /\ Sent = <<4, 32, 64>>[fanSpeed.int])
        /\ (lastOp'.op = "SetFanActive" /\ ~fanOn') =>
             (Sent = 98 /\ fanSpeed' = fanSpeed)
        /\ (lastOp'.op = "SetBrightness" /\ lastOp'.arg.val = 266) =>
             (Sent = 266 /\ lightBrightness' = lightBrightness)]_vars

\* C19 witness: the speed was written at level 2 and then at level 0:
\* SPEED2 and FAN.OFF were enqueued and fanSpeed is still 2.
C19_Witness ==
  /\ lastOp.op = "SetRotationSpeed"
  /\ lastOp.arg = JsNum(98)
  /\ fanSpeed = Whole(2)
  /\ Len(enqueued) = 2
  /\ enqueued[1].command = 32
  /\ enqueued[2].command = 98

====
